---- MODULE Spec2Model ----
(***************************************************************************)
(* Model of BackEnd/src/services/ai.service.js: generateContent(prompt),   *)
(* the validation of its prompt, the single upstream call                  *)
(* model.generateContent(prompt) it awaits, the reduction of the upstream  *)
(* result to one value (primary path, secondary path, JSON fallback,       *)
(* String fallback), and the console.log of that value before the return.  *)
(*                                                                         *)
(* Further, the controller getResponse that awaits the service (SpecHttp), *)
(* several invocations of the service in flight at once (SpecConc), and    *)
(* reviewCode of the frontend App (SpecFront, and SpecFrontSettling where  *)
(* every request issued settles).                                          *)
(*                                                                         *)
(* JavaScript strings are sequences of one-character strings, so that      *)
(* joining, JSON quoting and escaping are computed and not assumed.        *)
(***************************************************************************)
EXTENDS Integers, Sequences, FiniteSets, TLC

VARIABLES pc, prompt, upstream, result, reason, outcome, calls, logs, console,
          inv, ctrl, http, review, loading, reqs

\* the variables of one invocation of generateContent
serviceVars == <<pc, prompt, upstream, result, reason, outcome, calls, logs, console>>

\* the variables of the invocations in flight together, calls and logs aside
concVars == <<inv>>

\* the variables of the controller getResponse: where it stands, what it sent
httpVars == <<ctrl, http>>

\* the state of the frontend App: the review shown, the loading flag, and
\* the review requests issued so far, in the order of the clicks
frontVars == <<review, loading, reqs>>

vars == <<serviceVars, concVars, httpVars, frontVars>>

(***************************************************************************)
(* Bounds of the model.                                                    *)
(***************************************************************************)
\* longest content.parts array the upstream result carries
MaxParts == 3
\* invocations of generateContent that can be in flight at once
MaxInFlight == 2
\* clicks on the Review control
MaxClicks == 2

(***************************************************************************)
(* JavaScript values without structure: [t |-> type tag, s |-> characters].*)
(* For a number s is its decimal literal, for a boolean "true"/"false".    *)
(***************************************************************************)
Undefined == [t |-> "undefined", s |-> <<>>]
Null == [t |-> "null", s |-> <<>>]
Str(chars) == [t |-> "string", s |-> chars]
Num(digits) == [t |-> "number", s |-> digits]
True == [t |-> "boolean", s |-> <<"t", "r", "u", "e">>]
PlainObject == [t |-> "object", s |-> <<>>]

\* the typeof operator
TypeOf(v) ==
    CASE v.t = "null" -> "object"
      [] v.t = "array" -> "object"
      [] OTHER -> v.t

\* !v : the values JavaScript treats as false
Falsy(v) ==
    \/ v.t \in {"undefined", "null"}
    \/ v.t = "string" /\ v.s = <<>>
    \/ v.t = "number" /\ v.s = <<"0">>
    \/ v.t = "boolean" /\ v.s # True.s

\* v ?? w on the type tag: v is null or undefined
Nullish(v) == v.t \in {"undefined", "null"}

(***************************************************************************)
(* The strings the model draws from.                                       *)
(***************************************************************************)
Empty == <<>>
Blank == <<" ">>
Looks == <<"L", "o", "o", "k", "s", " ">>
Good == <<"g", "o", "o", "d", ".">>
Quoted == <<"\"", "\\">>
PlainText == <<"p", "l", "a", "i", "n", " ", "t", "e", "x", "t">>
PaddedX == <<" ", "x", " ">>

\* the message of the Error thrown on a missing prompt
MissingInputMessage ==
    <<"g", "e", "n", "e", "r", "a", "t", "e", "C", "o", "n", "t", "e", "n", "t",
      " ", "r", "e", "q", "u", "i", "r", "e", "s",
      " ", "a", " ", "n", "o", "n", "-", "e", "m", "p", "t", "y",
      " ", "s", "t", "r", "i", "n", "g", " ", "p", "r", "o", "m", "p", "t">>
MissingInput == [t |-> "Error", s |-> MissingInputMessage]
TypeError == [t |-> "TypeError", s |-> <<>>]

(***************************************************************************)
(* The upstream result, layer by layer:                                    *)
(*   result.response.candidates[0].content.parts[i].text                   *)
(* A layer's t is the JavaScript type of the value found there; "undefined"*)
(* is an absent property.  cyclic marks an object that holds a reference   *)
(* to itself.                                                              *)
(***************************************************************************)
\* a part: null, or an object with an optional text and an optional other: 1
PartNull == [t |-> "null", text |-> Undefined, other |-> FALSE]
PartObj(text, other) == [t |-> "object", text |-> text, other |-> other]

\* content.parts: absent, null, an array of parts, or a plain object {}
NoParts == [t |-> "undefined", items |-> <<>>]
NullParts == [t |-> "null", items |-> <<>>]
ObjectParts == [t |-> "object", items |-> <<>>]
ArrayParts(items) == [t |-> "array", items |-> items]

\* candidate.content: absent, null, or an object with parts
NoContent == [t |-> "undefined", parts |-> NoParts]
NullContent == [t |-> "null", parts |-> NoParts]
ContentObj(parts) == [t |-> "object", parts |-> parts]

\* a candidate: undefined, null, a function, or an object with content
NoCandidate == [t |-> "undefined", content |-> NoContent, cyclic |-> FALSE]
NullCandidate == [t |-> "null", content |-> NoContent, cyclic |-> FALSE]
FunctionCandidate == [t |-> "function", content |-> NoContent, cyclic |-> FALSE]
CandidateObj(content, cyclic) == [t |-> "object", content |-> content, cyclic |-> cyclic]

\* response.candidates: absent, null, or an array of candidates
NoCandidates == [t |-> "undefined", items |-> <<>>]
NullCandidates == [t |-> "null", items |-> <<>>]
ArrayCandidates(items) == [t |-> "array", items |-> items]

\* result.response: absent, null, a string, a function, or an object
NoResponse == [t |-> "undefined", s |-> <<>>, candidates |-> NoCandidates, cyclic |-> FALSE]
NullResponse == [t |-> "null", s |-> <<>>, candidates |-> NoCandidates, cyclic |-> FALSE]
FunctionResponse == [t |-> "function", s |-> <<>>, candidates |-> NoCandidates, cyclic |-> FALSE]
StringResponse(chars) == [t |-> "string", s |-> chars, candidates |-> NoCandidates, cyclic |-> FALSE]
ResponseObj(candidates, cyclic) ==
    [t |-> "object", s |-> <<>>, candidates |-> candidates, cyclic |-> cyclic]

\* the value the upstream call resolves with.  proto is FALSE for an object
\* without a prototype (Object.create(null)); a cyclic array is a = [a].
ResultOf(type, chars, response, cyclic, proto) ==
    [t |-> type, s |-> chars, response |-> response, cyclic |-> cyclic, proto |-> proto]
UndefinedResult == ResultOf("undefined", <<>>, NoResponse, FALSE, TRUE)
NullResult == ResultOf("null", <<>>, NoResponse, FALSE, TRUE)
StringResult(chars) == ResultOf("string", chars, NoResponse, FALSE, TRUE)
FunctionResult == ResultOf("function", <<>>, NoResponse, FALSE, TRUE)
ArrayResult(cyclic) == ResultOf("array", <<>>, NoResponse, cyclic, TRUE)
ResultObj(response, cyclic, proto) == ResultOf("object", <<>>, response, cyclic, proto)

(***************************************************************************)
(* JSON.stringify, computed on the layers above.  A value of undefined or  *)
(* a function has no JSON text: as a property it is omitted, in an array   *)
(* it becomes null, and at the top JSON.stringify returns undefined.  An   *)
(* object that reaches itself makes JSON.stringify throw a TypeError.      *)
(***************************************************************************)
RECURSIVE EscapeChars(_)
\* the characters of a string between the quotes of its JSON text
EscapeChars(chars) ==
    IF chars = <<>> THEN <<>>
    ELSE (IF Head(chars) \in {"\"", "\\"} THEN <<"\\", Head(chars)>> ELSE <<Head(chars)>>)
         \o EscapeChars(Tail(chars))

JsonString(chars) == <<"\"">> \o EscapeChars(chars) \o <<"\"">>

JsonNull == <<"n", "u", "l", "l">>

RECURSIVE JoinComma(_)
\* the texts of a sequence, separated by commas
JoinComma(texts) ==
    IF texts = <<>> THEN <<>>
    ELSE IF Len(texts) = 1 THEN texts[1]
    ELSE texts[1] \o <<",">> \o JoinComma(Tail(texts))

JsonArrayOf(texts) == <<"[">> \o JoinComma(texts) \o <<"]">>
JsonObjectOf(members) == <<"{">> \o JoinComma(members) \o <<"}">>
JsonMember(key, text) == JsonString(key) \o <<":">> \o text

\* a value without structure that has a JSON text
JsonPrimitive(v) ==
    CASE v.t = "string" -> JsonString(v.s)
      [] v.t = "null" -> JsonNull
      [] OTHER -> v.s

\* has this layer's value a JSON text of its own
HasJson(x) == x.t \notin {"undefined", "function"}

JsonPart(p) ==
    IF p.t # "object" THEN JsonNull
    ELSE JsonObjectOf(
           (IF HasJson(p.text) THEN <<JsonMember(<<"t", "e", "x", "t">>, JsonPrimitive(p.text))>>
            ELSE <<>>)
           \o (IF p.other THEN <<JsonMember(<<"o", "t", "h", "e", "r">>, <<"1">>)>> ELSE <<>>))

JsonParts(parts) ==
    CASE parts.t = "array" ->
           JsonArrayOf([i \in 1..Len(parts.items) |-> JsonPart(parts.items[i])])
      [] parts.t = "object" -> JsonObjectOf(<<>>)
      [] OTHER -> JsonNull

JsonContent(content) ==
    IF content.t # "object" THEN JsonNull
    ELSE JsonObjectOf(
           IF HasJson(content.parts)
           THEN <<JsonMember(<<"p", "a", "r", "t", "s">>, JsonParts(content.parts))>>
           ELSE <<>>)

\* a candidate inside the candidates array
JsonCandidate(candidate) ==
    IF candidate.t # "object" THEN JsonNull
    ELSE JsonObjectOf(
           IF HasJson(candidate.content)
           THEN <<JsonMember(<<"c", "o", "n", "t", "e", "n", "t">>,
                             JsonContent(candidate.content))>>
           ELSE <<>>)

JsonCandidates(candidates) ==
    IF candidates.t # "array" THEN JsonNull
    ELSE JsonArrayOf([i \in 1..Len(candidates.items) |-> JsonCandidate(candidates.items[i])])

JsonResponse(response) ==
    CASE response.t = "string" -> JsonString(response.s)
      [] response.t = "object" ->
           JsonObjectOf(
             IF HasJson(response.candidates)
             THEN <<JsonMember(<<"c", "a", "n", "d", "i", "d", "a", "t", "e", "s">>,
                               JsonCandidates(response.candidates))>>
             ELSE <<>>)
      [] OTHER -> JsonNull

JsonResult(res) ==
    CASE res.t = "string" -> JsonString(res.s)
      [] res.t = "array" -> JsonArrayOf(<<>>)
      [] res.t = "object" ->
           JsonObjectOf(
             IF HasJson(res.response)
             THEN <<JsonMember(<<"r", "e", "s", "p", "o", "n", "s", "e">>,
                               JsonResponse(res.response))>>
             ELSE <<>>)
      [] OTHER -> JsonNull

\* does serializing the value meet an object that contains itself
CircularCandidate(candidate) == candidate.t = "object" /\ candidate.cyclic
CircularResponse(response) ==
    /\ response.t = "object"
    /\ \/ response.cyclic
       \/ /\ response.candidates.t = "array"
          /\ \E i \in 1..Len(response.candidates.items) :
                CircularCandidate(response.candidates.items[i])
CircularResult(res) ==
    \/ res.t \in {"object", "array"} /\ res.cyclic
    \/ res.t = "object" /\ CircularResponse(res.response)

\* JSON.stringify(value): a string, undefined, or a thrown TypeError
Stringify(value, circular, text) ==
    IF circular THEN TypeError
    ELSE IF ~HasJson(value) THEN Undefined
    ELSE Str(text)

StringifyCandidate(candidate) ==
    Stringify(candidate, CircularCandidate(candidate), JsonCandidate(candidate))
StringifyResponse(response) ==
    Stringify(response, CircularResponse(response), JsonResponse(response))
StringifyResult(res) == Stringify(res, CircularResult(res), JsonResult(res))

(***************************************************************************)
(* String(result): the conversion of the catch branch.                     *)
(***************************************************************************)
ObjectObject ==
    <<"[", "o", "b", "j", "e", "c", "t", " ", "O", "b", "j", "e", "c", "t", "]">>
FunctionSource == <<"(", ")", " ", "=", ">", " ", "{", "}">>

\* an array joins its elements and writes an element it is already inside of
\* as the empty string; an object without a prototype has no toString
StringOf(res) ==
    CASE res.t = "undefined" -> Str(<<"u", "n", "d", "e", "f", "i", "n", "e", "d">>)
      [] res.t = "null" -> Str(JsonNull)
      [] res.t = "string" -> Str(res.s)
      [] res.t = "function" -> Str(FunctionSource)
      [] res.t = "array" -> Str(<<>>)
      [] res.t = "object" -> IF res.proto THEN Str(ObjectObject) ELSE TypeError

(***************************************************************************)
(* generateContent(prompt), ai.service.js.                                 *)
(***************************************************************************)
\* a validation that tests the type alone: typeof prompt !== 'string'
InvalidPromptTypeOnly(p) == TypeOf(p) # "string"

\* the guard of the throw: !prompt || typeof prompt !== 'string'
InvalidPrompt(p) == Falsy(p) \/ TypeOf(p) # "string"

\* the prompt wrapped in an object: model.generateContent({ prompt })
RequestBodyWrapped(p) == PlainObject

\* the argument of model.generateContent(...)
RequestBody(p) == p

\* result?.response
ResponseOf(res) == IF Nullish(res) THEN NoResponse ELSE res.response

\* the last candidate taken in place of the first: candidates?.at(-1)
FirstCandidateLast(res) ==
    LET response == ResponseOf(res)
        candidates == IF Nullish(response) THEN NoCandidates ELSE response.candidates
    IN  IF Nullish(candidates) \/ Len(candidates.items) = 0 THEN NoCandidate
        ELSE candidates.items[Len(candidates.items)]

\* result?.response?.candidates?.[0]
FirstCandidate(res) ==
    LET response == ResponseOf(res)
        candidates == IF Nullish(response) THEN NoCandidates ELSE response.candidates
    IN  IF Nullish(candidates) \/ Len(candidates.items) = 0 THEN NoCandidate
        ELSE candidates.items[1]

\* candidate?.content
ContentOf(candidate) == IF Nullish(candidate) THEN NoContent ELSE candidate.content

\* a text taken whatever its type: p && p.text ? String(p.text) : ''
TextOfAnyType(p) == IF p.t = "object" /\ ~Falsy(p.text) THEN p.text.s ELSE <<>>

\* p && typeof p.text === 'string' ? p.text : ''
TextOf(p) == IF p.t = "object" /\ TypeOf(p.text) = "string" THEN p.text.s ELSE <<>>

RECURSIVE FilterBoolean(_)
\* .filter(Boolean) on an array of strings: the empty strings go
FilterBoolean(texts) ==
    IF texts = <<>> THEN <<>>
    ELSE (IF Head(texts) = <<>> THEN <<>> ELSE <<Head(texts)>>) \o FilterBoolean(Tail(texts))

RECURSIVE JoinSpaced(_)
\* texts.join(' ')
JoinSpaced(texts) ==
    IF texts = <<>> THEN <<>>
    ELSE IF Len(texts) = 1 THEN texts[1]
    ELSE texts[1] \o <<" ">> \o JoinSpaced(Tail(texts))

RECURSIVE Join(_)
\* texts.join('')
Join(texts) == IF texts = <<>> THEN <<>> ELSE Head(texts) \o Join(Tail(texts))

\* the primary path: extracted after the if on content.parts
PrimaryPath(content) ==
    IF ~Nullish(content) /\ content.parts.t = "array"
    THEN LET texts == FilterBoolean([i \in 1..Len(content.parts.items) |->
                                        TextOf(content.parts.items[i])])
         IN  IF Len(texts) > 0 THEN Str(Join(texts)) ELSE Null
    ELSE Null

\* if (!extracted && typeof result?.response === 'string') extracted = result.response
SecondaryPath(extracted, res) ==
    IF Falsy(extracted) /\ TypeOf(ResponseOf(res)) = "string"
    THEN Str(ResponseOf(res).s)
    ELSE extracted

\* the same with result?.response, which reads nothing of a null result
StringifyUsefulOptional(candidate, res) ==
    IF ~Nullish(candidate) THEN StringifyCandidate(candidate)
    ELSE IF Nullish(res) THEN Undefined
    ELSE IF ~Nullish(res.response) THEN StringifyResponse(res.response)
    ELSE StringifyResult(res)

\* the response preferred to the candidate: result.response ?? candidate ?? result
StringifyUsefulResponseFirst(candidate, res) ==
    IF Nullish(res) THEN TypeError
    ELSE IF ~Nullish(res.response) THEN StringifyResponse(res.response)
    ELSE IF ~Nullish(candidate) THEN StringifyCandidate(candidate)
    ELSE StringifyResult(res)

\* JSON.stringify(candidate ?? result.response ?? result); reading
\* result.response of a null or undefined result throws a TypeError
StringifyUseful(candidate, res) ==
    IF ~Nullish(candidate) THEN StringifyCandidate(candidate)
    ELSE IF Nullish(res) THEN TypeError
    ELSE IF ~Nullish(res.response) THEN StringifyResponse(res.response)
    ELSE StringifyResult(res)

\* the try / catch of the last resort
FallbackPath(candidate, res) ==
    LET json == StringifyUseful(candidate, res)
    IN  IF json.t = "TypeError" THEN StringOf(res) ELSE json

\* the value of extracted at console.log, or the TypeError String(result) threw
Normalize(res) ==
    LET candidate == FirstCandidate(res)
        primary == PrimaryPath(ContentOf(candidate))
        secondary == SecondaryPath(primary, res)
    IN  IF Falsy(secondary) THEN FallbackPath(candidate, res) ELSE secondary

(***************************************************************************)
(* The inputs: the prompts a caller passes and the values the upstream     *)
(* call settles with.                                                      *)
(***************************************************************************)
Prompts ==
    {Undefined, Null, Str(Empty), Str(Blank), Str(PaddedX), Str(Looks),
     Num(<<"0">>), Num(<<"7">>), True, PlainObject}

PartValues ==
    {PartNull, PartObj(Undefined, TRUE), PartObj(Num(<<"7">>), FALSE)}
    \cup {PartObj(Str(chars), FALSE) : chars \in {Empty, Looks, Good, Quoted}}

PartsArrays == UNION {[1..n -> PartValues] : n \in 0..MaxParts}

Wrap(candidates) == ResultObj(ResponseObj(candidates, FALSE), FALSE, TRUE)

\* results whose first candidate holds an array of parts
TextResults ==
    {Wrap(ArrayCandidates(<<CandidateObj(ContentObj(ArrayParts(parts)), FALSE)>>)) :
        parts \in PartsArrays}

GoodParts == ArrayParts(<<PartObj(Str(Good), FALSE)>>)

Contents ==
    {NoContent, NullContent}
    \cup {ContentObj(parts) :
            parts \in {NoParts, NullParts, ObjectParts, ArrayParts(<<>>), GoodParts,
                       ArrayParts(<<PartObj(Str(Empty), FALSE)>>)}}

Candidates ==
    {NoCandidate, NullCandidate, FunctionCandidate}
    \cup {CandidateObj(content, cyclic) : content \in Contents, cyclic \in BOOLEAN}

LaterCandidates == {NullCandidate, CandidateObj(ContentObj(GoodParts), FALSE)}

CandidatesValues ==
    {NoCandidates, NullCandidates, ArrayCandidates(<<>>)}
    \cup {ArrayCandidates(<<first>>) : first \in Candidates}
    \cup {ArrayCandidates(<<first, later>>) : first \in Candidates, later \in LaterCandidates}

Responses ==
    {NoResponse, NullResponse, FunctionResponse}
    \cup {StringResponse(chars) : chars \in {Empty, PlainText, Quoted}}
    \cup {ResponseObj(candidates, cyclic) :
            candidates \in CandidatesValues, cyclic \in BOOLEAN}

\* results of every other shape
ShapeResults ==
    {UndefinedResult, NullResult, FunctionResult, StringResult(PlainText),
     ArrayResult(FALSE), ArrayResult(TRUE)}
    \cup {ResultObj(NoResponse, cyclic, FALSE) : cyclic \in BOOLEAN}
    \cup {ResultObj(response, cyclic, TRUE) : response \in Responses, cyclic \in BOOLEAN}

Results == TextResults \cup ShapeResults

\* the errors the upstream call rejects with
UpstreamErrors ==
    {[t |-> "Error", s |-> <<"4", "2", "9">>],
     [t |-> "Error", s |-> <<"f", "e", "t", "c", "h", " ", "f", "a", "i", "l", "e", "d">>]}

(***************************************************************************)
(* One invocation of generateContent.  pc is where it stands: "idle"       *)
(* before the call, "awaiting" at the await of the upstream call, "done"   *)
(* once its promise has settled.  upstream is the state of the promise of  *)
(* the upstream call ("none" before the call), calls are the arguments     *)
(* model.generateContent has been called with, logs the values console.log *)
(* has written, outcome how the promise of generateContent settled, result *)
(* the value the upstream promise resolved with and reason the error it    *)
(* rejected with.  console is "ok" for a console.log that returns, as      *)
(* Node's does, and "throws" for one that has been replaced by a logger    *)
(* that throws.                                                            *)
(***************************************************************************)
Pending == [kind |-> "none", v |-> Undefined]
Returned(v) == [kind |-> "return", v |-> v]
Thrown(e) == [kind |-> "throw", v |-> e]

\* the invocations in flight at once, each with its own parameter and locals
Invocations == 1..MaxInFlight
NotInvoked ==
    [pc |-> "idle", prompt |-> Undefined, upstream |-> "none",
     result |-> UndefinedResult, outcome |-> Pending]

\* the HTTP response of the controller: nothing yet, or a status and a body
NothingSent == [sent |-> FALSE, status |-> 0, kind |-> "none", v |-> Undefined]
Sent(status, kind, v) == [sent |-> TRUE, status |-> status, kind |-> kind, v |-> v]

\* the error a throwing console.log raises
LogError == [t |-> "Error", s |-> <<"E", "P", "I", "P", "E">>]

\* the start of an invocation, under either console
InitLog ==
    /\ pc = "idle"
    /\ prompt = Undefined
    /\ upstream = "none"
    /\ result = UndefinedResult
    /\ reason = Undefined
    /\ outcome = Pending
    /\ calls = <<>>
    /\ logs = <<>>
    /\ console \in {"ok", "throws"}
    /\ inv = [i \in Invocations |-> NotInvoked]
    /\ ctrl = "idle"
    /\ http = NothingSent
    /\ review = Str(<<>>)
    /\ loading = FALSE
    /\ reqs = <<>>

Init == InitLog /\ console = "ok"

\* generateContent with the upstream call issued ahead of the validation
InvokeCallFirst(p) ==
    /\ pc = "idle"
    /\ prompt' = p
    /\ calls' = Append(calls, RequestBody(p))
    /\ IF InvalidPrompt(p)
       THEN /\ pc' = "done"
            /\ outcome' = Thrown(MissingInput)
            /\ upstream' = upstream
       ELSE /\ pc' = "awaiting"
            /\ outcome' = outcome
            /\ upstream' = "pending"
    /\ UNCHANGED <<result, reason, logs, console>>

\* generateContent(p) up to its await: the validation and the upstream call
Invoke(p) ==
    /\ pc = "idle"
    /\ prompt' = p
    /\ IF InvalidPrompt(p)
       THEN /\ pc' = "done"
            /\ outcome' = Thrown(MissingInput)
            /\ UNCHANGED <<upstream, calls>>
       ELSE /\ pc' = "awaiting"
            /\ outcome' = outcome
            /\ upstream' = "pending"
            /\ calls' = Append(calls, RequestBody(p))
    /\ UNCHANGED <<result, reason, logs, console>>

\* the continuation with the console.log taken out
UpstreamResolveQuiet(r) ==
    /\ pc = "awaiting"
    /\ upstream' = "resolved"
    /\ result' = r
    /\ pc' = "done"
    /\ LET extracted == Normalize(r)
       IN  outcome' = IF extracted.t = "TypeError" THEN Thrown(extracted)
                      ELSE Returned(extracted)
    /\ UNCHANGED <<prompt, reason, calls, logs, console>>

\* the upstream call resolves with r: the rest of the function runs
UpstreamResolve(r) ==
    /\ pc = "awaiting"
    /\ upstream' = "resolved"
    /\ result' = r
    /\ pc' = "done"
    /\ LET extracted == Normalize(r)
       IN  IF extracted.t = "TypeError"
           THEN /\ outcome' = Thrown(extracted)
                /\ logs' = logs
           ELSE IF console = "throws"
           THEN /\ outcome' = Thrown(LogError)
                /\ logs' = logs
           ELSE /\ logs' = Append(logs, extracted)
                /\ outcome' = Returned(extracted)
    /\ UNCHANGED <<prompt, reason, calls, console>>

\* a rejection caught and turned into a returned, logged message
UpstreamRejectCaught(e) ==
    /\ pc = "awaiting"
    /\ upstream' = "rejected"
    /\ reason' = e
    /\ pc' = "done"
    /\ outcome' = Returned(Str(e.s))
    /\ logs' = Append(logs, Str(e.s))
    /\ UNCHANGED <<prompt, result, calls, console>>

\* a rejection caught and the call issued once more before giving up
UpstreamRejectRetry(e) ==
    /\ pc = "awaiting"
    /\ IF Len(calls) < 2
       THEN /\ calls' = Append(calls, RequestBody(prompt))
            /\ UNCHANGED <<pc, upstream, outcome>>
       ELSE /\ upstream' = "rejected"
            /\ pc' = "done"
            /\ outcome' = Thrown(e)
            /\ calls' = calls
    /\ reason' = e
    /\ UNCHANGED <<prompt, result, logs, console>>

\* the upstream call rejects with e: the await throws, nothing catches it
UpstreamReject(e) ==
    /\ pc = "awaiting"
    /\ upstream' = "rejected"
    /\ reason' = e
    /\ pc' = "done"
    /\ outcome' = Thrown(e)
    /\ UNCHANGED <<prompt, result, calls, logs, console>>

Next ==
    \/ \E p \in Prompts : Invoke(p) /\ UNCHANGED <<concVars, httpVars, frontVars>>
    \/ \E r \in Results : UpstreamResolve(r) /\ UNCHANGED <<concVars, httpVars, frontVars>>
    \/ \E e \in UpstreamErrors : UpstreamReject(e) /\ UNCHANGED <<concVars, httpVars, frontVars>>

Spec == Init /\ [][Next]_vars

\* the same invocation where console.log may be one that throws
SpecLog == InitLog /\ [][Next]_vars

(***************************************************************************)
(* The controller getResponse of the backend README, which awaits the      *)
(* service: prompt = req.query.prompt; a missing prompt is answered with   *)
(* 400; otherwise aiService(prompt) is awaited and { response } sent.  The *)
(* await stands in no try block.  When the service rejects, the promise of *)
(* the handler rejects: Express 4 does not look at it and no response is   *)
(* ever sent; Express 5 passes the error to its default error handler,     *)
(* which answers 500 with the stack of the error, or with the text         *)
(* "Internal Server Error" when NODE_ENV is production.  The README        *)
(* installs express without a version, so each of the three can happen.    *)
(***************************************************************************)
PromptRequired ==
    <<"P", "r", "o", "m", "p", "t", " ", "i", "s", " ",
      "r", "e", "q", "u", "i", "r", "e", "d">>
InternalServerError ==
    <<"I", "n", "t", "e", "r", "n", "a", "l", " ", "S", "e", "r", "v", "e", "r",
      " ", "E", "r", "r", "o", "r">>

\* the values of req.query.prompt: absent, empty, a string, or the object
\* that ?prompt[a]=b parses to
Queries == {Undefined, Str(Empty), Str(Blank), Str(Looks), PlainObject}

\* what the client gets when the handler's promise rejects with error e
UnhandledRejection(e) ==
    {NothingSent, Sent(500, "stack", e), Sent(500, "text", Str(InternalServerError))}

\* getResponse(req, res) up to its await, the call of the service included
HttpRequest(q) ==
    /\ ctrl = "idle"
    /\ IF Falsy(q)
       THEN /\ ctrl' = "done"
            /\ http' = Sent(400, "error", Str(PromptRequired))
            /\ UNCHANGED serviceVars
       ELSE /\ ctrl' = "awaiting"
            /\ http' = http
            /\ Invoke(q)
    /\ UNCHANGED <<concVars, frontVars>>

\* the service has settled: res.send({ response }), or the await throws
HttpResume ==
    /\ ctrl = "awaiting"
    /\ pc = "done"
    /\ ctrl' = "done"
    /\ IF outcome.kind = "return"
       THEN http' = Sent(200, "response", outcome.v)
       ELSE http' \in UnhandledRejection(outcome.v)
    /\ UNCHANGED <<serviceVars, concVars, frontVars>>

HttpNext ==
    \/ \E q \in Queries : HttpRequest(q)
    \/ \E r \in Results : UpstreamResolve(r) /\ UNCHANGED <<concVars, httpVars, frontVars>>
    \/ \E e \in UpstreamErrors : UpstreamReject(e) /\ UNCHANGED <<concVars, httpVars, frontVars>>
    \/ HttpResume

SpecHttp == Init /\ [][HttpNext]_vars

(***************************************************************************)
(* Several invocations of generateContent in flight at once.  Each has its *)
(* own prompt, result, candidate, content and extracted (parameters and    *)
(* const / let of the function); the module shares model, whose calls are  *)
(* recorded in calls, and the console, whose lines are logs.  An invocation*)
(* runs from its call to its await, and from the settling of its upstream  *)
(* promise to its return, without interruption; the upstream calls settle  *)
(* in any order.                                                           *)
(***************************************************************************)
ConcPrompts == {Str(Empty), Str(Blank), Str(Looks)}

ConcResults ==
    {NullResult, FunctionResult,
     ResultObj(StringResponse(PlainText), FALSE, TRUE),
     Wrap(ArrayCandidates(<<>>)),
     Wrap(ArrayCandidates(<<CandidateObj(ContentObj(GoodParts), FALSE)>>))}

\* the service variables of the single invocation stay as they are
singleVars == <<pc, prompt, upstream, result, reason, outcome, console>>

\* invocation i up to its await
ConcInvoke(i, p) ==
    /\ inv[i].pc = "idle"
    /\ IF InvalidPrompt(p)
       THEN /\ inv' = [inv EXCEPT ![i].pc = "done", ![i].prompt = p,
                                  ![i].outcome = Thrown(MissingInput)]
            /\ calls' = calls
       ELSE /\ inv' = [inv EXCEPT ![i].pc = "awaiting", ![i].prompt = p,
                                  ![i].upstream = "pending"]
            /\ calls' = Append(calls, RequestBody(p))
    /\ UNCHANGED <<logs, singleVars>>

\* a continuation that returns the value a module-level variable kept from
\* the first invocation to finish
ConcResolveCached(i, r) ==
    /\ inv[i].pc = "awaiting"
    /\ LET extracted == IF logs = <<>> THEN Normalize(r) ELSE logs[1]
       IN  /\ inv' = [inv EXCEPT ![i].pc = "done", ![i].upstream = "resolved",
                                 ![i].result = r, ![i].outcome = Returned(extracted)]
           /\ logs' = Append(logs, extracted)
    /\ UNCHANGED <<calls, singleVars>>

\* the upstream call of invocation i resolves with r
ConcResolve(i, r) ==
    /\ inv[i].pc = "awaiting"
    /\ LET extracted == Normalize(r)
       IN  IF extracted.t = "TypeError"
           THEN /\ inv' = [inv EXCEPT ![i].pc = "done", ![i].upstream = "resolved",
                                      ![i].result = r, ![i].outcome = Thrown(extracted)]
                /\ logs' = logs
           ELSE /\ inv' = [inv EXCEPT ![i].pc = "done", ![i].upstream = "resolved",
                                      ![i].result = r, ![i].outcome = Returned(extracted)]
                /\ logs' = Append(logs, extracted)
    /\ UNCHANGED <<calls, singleVars>>

\* the upstream call of invocation i rejects with e
ConcReject(i, e) ==
    /\ inv[i].pc = "awaiting"
    /\ inv' = [inv EXCEPT ![i].pc = "done", ![i].upstream = "rejected",
                          ![i].outcome = Thrown(e)]
    /\ UNCHANGED <<calls, logs, singleVars>>

ConcNext ==
    \/ \E i \in Invocations, p \in ConcPrompts : ConcInvoke(i, p) /\ UNCHANGED <<httpVars, frontVars>>
    \/ \E i \in Invocations, r \in ConcResults : ConcResolve(i, r) /\ UNCHANGED <<httpVars, frontVars>>
    \/ \E i \in Invocations, e \in UpstreamErrors : ConcReject(i, e) /\ UNCHANGED <<httpVars, frontVars>>

SpecConc == Init /\ [][ConcNext]_vars

(***************************************************************************)
(* The frontend App: reviewCode() of App.jsx, run on every click of the    *)
(* Review control.  It sets loading, awaits axios.post, and then either    *)
(* sets review from the response (try), or to a fixed message (catch), and *)
(* in both cases clears loading (finally).  The control is a div with an   *)
(* onClick and no guard, so a click is taken while a request is pending.   *)
(*                                                                         *)
(* response.data is what axios made of the body: a JSON value or a string. *)
(* A value inside data is [t, s, items]: items are the elements of an      *)
(* array, or the value of the one key "text" of an object.  data itself is *)
(* [t, s, response, error]: response is data.response (t "undefined" when *)
(* the key is missing) and error tells whether data has a key "error".     *)
(***************************************************************************)
ErrorReview ==
    <<"E", "r", "r", "o", "r", ":", " ", "F", "a", "i", "l", "e", "d", " ",
      "t", "o", " ", "f", "e", "t", "c", "h", " ", "r", "e", "v", "i", "e",
      "w", ".", " ", "C", "h", "e", "c", "k", " ", "t", "h", "e", " ", "c",
      "o", "n", "s", "o", "l", "e", " ", "f", "o", "r", " ", "d", "e", "t",
      "a", "i", "l", "s", ".">>

Inner(type, chars, items) == [t |-> type, s |-> chars, items |-> items]
NoInner == Inner("undefined", <<>>, <<>>)

InnerValues ==
    {NoInner, Inner("null", <<>>, <<>>), Inner("number", <<"7">>, <<>>),
     Inner("boolean", <<"f", "a", "l", "s", "e">>, <<>>),
     Inner("string", Empty, <<>>), Inner("string", Good, <<>>),
     Inner("object", <<>>, <<>>), Inner("object", <<>>, <<Str(Good)>>),
     Inner("array", <<>>, <<>>), Inner("array", <<>>, <<Str(Good), Num(<<"7">>)>>)}

Data(type, chars, response, error) ==
    [t |-> type, s |-> chars, response |-> response, error |-> error]

DataValues ==
    {Data("undefined", <<>>, NoInner, FALSE), Data("null", <<>>, NoInner, FALSE),
     Data("string", Empty, NoInner, FALSE), Data("string", PlainText, NoInner, FALSE),
     Data("number", <<"7">>, NoInner, FALSE), Data("array", <<>>, NoInner, FALSE)}
    \cup {Data("object", <<>>, inner, error) : inner \in InnerValues, error \in BOOLEAN}

NewLine == <<"\n">>
Indent == <<" ", " ">>

RECURSIVE JoinLines(_)
\* the members of a pretty-printed object or array, one per line
JoinLines(texts) ==
    IF texts = <<>> THEN <<>>
    ELSE IF Len(texts) = 1 THEN Indent \o texts[1]
    ELSE Indent \o texts[1] \o <<",">> \o NewLine \o JoinLines(Tail(texts))

PrettyArrayOf(texts) ==
    IF texts = <<>> THEN <<"[", "]">>
    ELSE <<"[">> \o NewLine \o JoinLines(texts) \o NewLine \o <<"]">>
PrettyObjectOf(members) ==
    IF members = <<>> THEN <<"{", "}">>
    ELSE <<"{">> \o NewLine \o JoinLines(members) \o NewLine \o <<"}">>
PrettyMember(key, text) == JsonString(key) \o <<":", " ">> \o text

\* JSON.stringify(x, null, 2) of a value inside data
PrettyInner(x) ==
    CASE x.t = "array" ->
           PrettyArrayOf([i \in 1..Len(x.items) |-> JsonPrimitive(x.items[i])])
      [] x.t = "object" ->
           PrettyObjectOf([i \in 1..Len(x.items) |->
                             PrettyMember(<<"t", "e", "x", "t">>, JsonPrimitive(x.items[i]))])
      [] OTHER -> JsonPrimitive(x)

\* JSON.stringify(data, null, 2), reached when data.response is null or missing
PrettyData(d) ==
    CASE d.t = "array" -> PrettyArrayOf(<<>>)
      [] d.t = "object" ->
           PrettyObjectOf(
             (IF d.response.t = "null"
              THEN <<PrettyMember(<<"r", "e", "s", "p", "o", "n", "s", "e">>, JsonNull)>>
              ELSE <<>>)
             \o (IF d.error
                 THEN <<PrettyMember(<<"e", "r", "r", "o", "r">>, JsonString(Good))>>
                 ELSE <<>>))
      [] OTHER -> JsonPrimitive(d)

\* setReview(text) without the typeof test: the value keeps its own type
ReviewOfUnguarded(d) ==
    IF ~Nullish(d) /\ ~Nullish(d.response) THEN [t |-> d.response.t, s |-> d.response.s]
    ELSE IF ~Nullish(d) THEN [t |-> d.t, s |-> d.s]
    ELSE Str(<<>>)

\* text = response?.data?.response ?? response?.data ?? '' and the argument
\* of setReview: text if it is a string, else JSON.stringify(text, null, 2)
ReviewOf(d) ==
    IF ~Nullish(d) /\ ~Nullish(d.response)
    THEN (IF TypeOf(d.response) = "string" THEN Str(d.response.s)
          ELSE Str(PrettyInner(d.response)))
    ELSE IF ~Nullish(d)
    THEN (IF TypeOf(d) = "string" THEN Str(d.s) ELSE Str(PrettyData(d)))
    ELSE Str(<<>>)

\* a request as issued, as answered with the review it set, and as failed
PendingRequest == [state |-> "pending", shown |-> Undefined]
SettledRequest(shown) == [state |-> "done", shown |-> shown]
FailedRequest == [state |-> "failed", shown |-> Str(ErrorReview)]

\* a click: reviewCode() up to its await
Click ==
    /\ Len(reqs) < MaxClicks
    /\ loading' = TRUE
    /\ reqs' = Append(reqs, PendingRequest)
    /\ review' = review

\* the request i is answered with data d: the rest of try, then finally
Respond(i, d) ==
    /\ reqs[i].state = "pending"
    /\ review' = ReviewOf(d)
    /\ loading' = FALSE
    /\ reqs' = [reqs EXCEPT ![i] = SettledRequest(ReviewOf(d))]

\* the request i fails, in a reviewCode without its finally block: the catch
\* sets the review and loading is left as it is
FailNoFinally(i) ==
    /\ reqs[i].state = "pending"
    /\ review' = Str(ErrorReview)
    /\ loading' = loading
    /\ reqs' = [reqs EXCEPT ![i] = FailedRequest]

\* the request i fails (HTTP error status or no answer): catch, then finally
Fail(i) ==
    /\ reqs[i].state = "pending"
    /\ review' = Str(ErrorReview)
    /\ loading' = FALSE
    /\ reqs' = [reqs EXCEPT ![i] = FailedRequest]

FrontNext ==
    \/ Click /\ UNCHANGED <<serviceVars, concVars, httpVars>>
    \/ \E i \in 1..Len(reqs), d \in DataValues :
          Respond(i, d) /\ UNCHANGED <<serviceVars, concVars, httpVars>>
    \/ \E i \in 1..Len(reqs) : Fail(i) /\ UNCHANGED <<serviceVars, concVars, httpVars>>

SpecFront == Init /\ [][FrontNext]_vars

\* the request i settles: axios.post resolves, or it rejects
Settle(i) ==
    /\ i <= Len(reqs)
    /\ \/ \E d \in DataValues : Respond(i, d)
       \/ Fail(i)
    /\ UNCHANGED <<serviceVars, concVars, httpVars>>

\* the App where every request issued settles in the end: the promise of
\* axios.post is resolved or rejected, and its continuation is then run by
\* the event loop
SpecFrontSettling == SpecFront /\ \A i \in 1..MaxClicks : WF_vars(Settle(i))

(***************************************************************************)
(* What the claims speak of, stated on the shape of the upstream result    *)
(* and not through the operators of generateContent.                       *)
(***************************************************************************)
\* result.response.candidates[0].content.parts is an array
HasPartsArray(res) ==
    /\ res.t = "object"
    /\ res.response.t = "object"
    /\ res.response.candidates.t = "array"
    /\ Len(res.response.candidates.items) >= 1
    /\ res.response.candidates.items[1].t = "object"
    /\ res.response.candidates.items[1].content.t = "object"
    /\ res.response.candidates.items[1].content.parts.t = "array"

PartsOf(res) == res.response.candidates.items[1].content.parts.items

HasStringText(p) == p.t = "object" /\ p.text.t = "string"
HasNonEmptyText(p) == HasStringText(p) /\ p.text.s # <<>>

RECURSIVE ConcatNonEmptyTexts(_)
\* the texts of the parts whose text is a non-empty string, in order
ConcatNonEmptyTexts(parts) ==
    IF parts = <<>> THEN <<>>
    ELSE (IF HasNonEmptyText(Head(parts)) THEN Head(parts).text.s ELSE <<>>)
         \o ConcatNonEmptyTexts(Tail(parts))

RECURSIVE ConcatStringTexts(_)
\* the texts of the parts whose text is a string, in order
ConcatStringTexts(parts) ==
    IF parts = <<>> THEN <<>>
    ELSE (IF HasStringText(Head(parts)) THEN Head(parts).text.s ELSE <<>>)
         \o ConcatStringTexts(Tail(parts))

\* the first candidate carries a non-empty text
HasCandidateText(res) ==
    HasPartsArray(res) /\ \E i \in 1..Len(PartsOf(res)) : HasNonEmptyText(PartsOf(res)[i])

\* result.response is a string
HasStringResponse(res) == res.t = "object" /\ res.response.t = "string"

\* generateContent returned a non-empty string
ReturnedNonEmptyString ==
    outcome.kind = "return" /\ outcome.v.t = "string" /\ outcome.v.s # <<>>

\* the prompt is a non-empty string
NonEmptyStringPrompt == prompt.t = "string" /\ prompt.s # <<>>

(***************************************************************************)
(* The claims.                                                             *)
(***************************************************************************)
\* C1: whatever the upstream call resolves with, the value generateContent
\* resolves with is a string, never an object, null or undefined.
C1_AlwaysString == outcome.kind = "return" => outcome.v.t = "string"

\* C2: when the parts of the first candidate hold at least one non-empty
\* string text, generateContent returns the texts of exactly those parts,
\* joined in array order with no separator.
C2_PrimaryConcatenation ==
    (upstream = "resolved" /\ HasCandidateText(result))
        => outcome = Returned(Str(ConcatNonEmptyTexts(PartsOf(result))))

\* the parts [{text: "Looks "}, {other: 1}, {text: "good."}] gave "Looks good."
C2_Witness ==
    /\ upstream = "resolved"
    /\ HasPartsArray(result)
    /\ PartsOf(result) =
         <<PartObj(Str(Looks), FALSE), PartObj(Undefined, TRUE), PartObj(Str(Good), FALSE)>>
    /\ outcome = Returned(Str(Looks \o Good))

\* C3 as stated: when the parts of the first candidate are non-empty and at
\* least one part has a string text, the empty string included, generateContent
\* returns the texts of the parts that have a string text, joined in order.
C3_AnyStringText ==
    (/\ upstream = "resolved"
     /\ HasPartsArray(result)
     /\ \E i \in 1..Len(PartsOf(result)) : HasStringText(PartsOf(result)[i]))
        => outcome = Returned(Str(ConcatStringTexts(PartsOf(result))))

\* C3 as amended: when at least one part of the first candidate has a
\* non-empty string text, generateContent returns the texts of the parts that
\* have a string text, joined in order, and nothing of the other parts.
C3_NonEmptyStringText ==
    (upstream = "resolved" /\ HasCandidateText(result))
        => outcome = Returned(Str(ConcatStringTexts(PartsOf(result))))

\* parts with an empty text, a text that is no string and a non-empty text
C3_Witness ==
    /\ upstream = "resolved"
    /\ HasPartsArray(result)
    /\ PartsOf(result) =
         <<PartObj(Str(Empty), FALSE), PartObj(Num(<<"7">>), FALSE), PartObj(Str(Good), FALSE)>>
    /\ outcome = Returned(Str(Good))

\* C4: when result.response is a string s, the empty string included,
\* generateContent returns exactly s.
C4_SecondaryUnchanged ==
    (upstream = "resolved" /\ HasStringResponse(result))
        => outcome = Returned(Str(result.response.s))

\* C5: for a result with no candidate text and no string response,
\* generateContent returns a non-empty string and does not raise, also when
\* the result holds a circular reference.
C5_FallbackNonEmpty ==
    (upstream = "resolved" /\ ~HasCandidateText(result) /\ ~HasStringResponse(result))
        => ReturnedNonEmptyString

\* C6: when the upstream call resolves with null or with undefined,
\* generateContent returns a non-empty string and does not raise.
C6_NullishResult ==
    (upstream = "resolved" /\ result.t \in {"null", "undefined"})
        => ReturnedNonEmptyString

\* the upstream call resolved with null and "null" was returned
C6_Witness ==
    /\ upstream = "resolved"
    /\ result = NullResult
    /\ outcome = Returned(Str(JsonNull))

\* C7: generateContent fails with the missing-input error for every prompt
\* that is absent, empty or no string, and passes the validation, reaching the
\* upstream call, for every non-empty string, whitespace alone included.
C7_Validation ==
    pc # "idle" =>
        IF NonEmptyStringPrompt
        THEN upstream # "none" /\ outcome # Thrown(MissingInput)
        ELSE pc = "done" /\ outcome = Thrown(MissingInput)

\* a prompt of one blank passed the validation
C7_Witness == prompt = Str(Blank) /\ pc = "awaiting" /\ upstream = "pending"

\* C8: the argument handed to the upstream call is the prompt itself, a
\* string with the same characters, neither trimmed nor wrapped.
C8_ExactPrompt ==
    \A i \in 1..Len(calls) : calls[i] = prompt /\ calls[i].t = "string"

\* the prompt " x " reached the upstream call with its blanks
C8_Witness == prompt = Str(PaddedX) /\ calls = <<Str(PaddedX)>>

\* C9: when the validation of the prompt fails, no upstream call is issued
\* and nothing is logged.
C9_NoCallOnInvalid ==
    (pc # "idle" /\ ~NonEmptyStringPrompt)
        => calls = <<>> /\ logs = <<>> /\ upstream = "none"

\* the empty prompt was refused
C9_Witness ==
    /\ pc = "done"
    /\ prompt = Str(Empty)
    /\ outcome = Thrown(MissingInput)
    /\ calls = <<>>

\* C10: an invocation with a valid prompt issues exactly one upstream call,
\* whether the call is pending, resolved with any shape, or rejected.
C10_ExactlyOneCall ==
    (pc # "idle" /\ NonEmptyStringPrompt) => Len(calls) = 1

\* the upstream call rejected and was not repeated
C10_Witness ==
    /\ pc = "done"
    /\ upstream = "rejected"
    /\ outcome.kind = "throw"
    /\ Len(calls) = 1

\* C11: when the upstream call rejects, generateContent rejects with that
\* same error: it is not turned into a returned value and nothing is logged.
C11_RejectionPropagates ==
    upstream = "rejected" => outcome = Thrown(reason) /\ logs = <<>>

\* the upstream call rejected and generateContent rejected with its error
C11_Witness ==
    /\ pc = "done"
    /\ upstream = "rejected"
    /\ reason \in UpstreamErrors
    /\ outcome = Thrown(reason)

\* C12: on every successful invocation exactly one value has been logged by
\* the time generateContent returns, and it is the returned value.
C12_LoggedOnce == outcome.kind = "return" => logs = <<outcome.v>>

\* the fallback path was taken and its string logged and returned
C12_Witness ==
    /\ upstream = "resolved"
    /\ ~HasCandidateText(result)
    /\ ~HasStringResponse(result)
    /\ outcome.kind = "return"
    /\ outcome.v.t = "string"
    /\ logs = <<outcome.v>>

\* C13: a console.log that throws never turns a request whose upstream call
\* resolved into an error: the normalized value is still returned.
C13_LogFailureHarmless ==
    (upstream = "resolved" /\ console = "throws") => outcome # Thrown(LogError)

(***************************************************************************)
(* The fragment of the result the fallback prefers, and the result with    *)
(* its later candidates taken away.                                        *)
(***************************************************************************)
HasCandidatesArray(res) ==
    /\ res.t = "object"
    /\ res.response.t = "object"
    /\ res.response.candidates.t = "array"

\* candidates[0], undefined when there is none
FirstOf(res) ==
    IF HasCandidatesArray(res) /\ Len(res.response.candidates.items) >= 1
    THEN res.response.candidates.items[1]
    ELSE NoCandidate

IsNullOrUndefined(x) == x.t \in {"null", "undefined"}

\* JSON.stringify of the first candidate if it is neither null nor undefined,
\* otherwise of result.response if it is neither, otherwise of the result
JsonOfPreferred(res) ==
    IF ~IsNullOrUndefined(FirstOf(res)) THEN StringifyCandidate(FirstOf(res))
    ELSE IF ~IsNullOrUndefined(res.response) THEN StringifyResponse(res.response)
    ELSE StringifyResult(res)

\* the text of the primary path, or else of the secondary path, is not empty
YieldsText(res) ==
    HasCandidateText(res) \/ (HasStringResponse(res) /\ res.response.s # <<>>)

TextYielded(res) ==
    IF HasCandidateText(res) THEN ConcatNonEmptyTexts(PartsOf(res)) ELSE res.response.s

HasLaterCandidates(res) ==
    HasCandidatesArray(res) /\ Len(res.response.candidates.items) >= 2

\* the result with candidates[1..] removed
DropLater(res) ==
    [res EXCEPT !.response.candidates.items = <<res.response.candidates.items[1]>>]

\* how generateContent settles for a result, with Node's console
OutcomeFor(res) ==
    IF Normalize(res).t = "TypeError" THEN Thrown(Normalize(res)) ELSE Returned(Normalize(res))

C19_LaterCandidatesIgnored ==
    (upstream = "resolved" /\ HasLaterCandidates(result))
        => outcome = OutcomeFor(DropLater(result))

\* C19 as amended: for every response with two or more candidates whose first
\* candidate is neither null nor undefined, the outcome does not depend on
\* candidates[1..], and when the first candidate has no non-empty text the
\* outcome is what the fallback yields for the first candidate.
C19_LaterIgnoredAfterFirst ==
    (/\ upstream = "resolved"
     /\ HasLaterCandidates(result)
     /\ ~IsNullOrUndefined(FirstOf(result)))
        => /\ outcome = OutcomeFor(DropLater(result))
           /\ (~HasCandidateText(result) /\ ~CircularCandidate(FirstOf(result)))
                 => outcome = Returned(StringifyCandidate(FirstOf(result)))

\* the first candidate has an empty text, the second the text "good.", and
\* the JSON of the first candidate was returned
C19_Witness ==
    /\ upstream = "resolved"
    /\ HasLaterCandidates(result)
    /\ FirstOf(result) = CandidateObj(ContentObj(ArrayParts(<<PartObj(Str(Empty), FALSE)>>)), FALSE)
    /\ result.response.candidates.items[2] = CandidateObj(ContentObj(GoodParts), FALSE)
    /\ outcome = Returned(Str(JsonCandidate(FirstOf(result))))

\* C14: with any number of invocations in flight and their upstream calls
\* settling in any order, each invocation returns the normalization of its
\* own upstream result, as it does when run alone, and an invocation that has
\* not been called holds nothing of the others.
C14_Isolation ==
    \A i \in Invocations :
        /\ inv[i].upstream = "resolved" => inv[i].outcome = OutcomeFor(inv[i].result)
        /\ inv[i].pc = "idle" => inv[i] = NotInvoked

\* two invocations overlapped and the second to be called finished first,
\* each with the normalization of its own result
C14_Witness ==
    /\ inv[1].upstream = "resolved"
    /\ inv[2].upstream = "resolved"
    /\ calls = <<Str(Looks), Str(Blank)>>
    /\ inv[1].prompt = Str(Looks)
    /\ inv[2].prompt = Str(Blank)
    /\ inv[1].result = ResultObj(StringResponse(PlainText), FALSE, TRUE)
    /\ inv[2].result = Wrap(ArrayCandidates(<<CandidateObj(ContentObj(GoodParts), FALSE)>>))
    /\ logs = <<Str(Good), Str(PlainText)>>
    /\ inv[1].outcome = Returned(Str(PlainText))
    /\ inv[2].outcome = Returned(Str(Good))

\* C15: when the service rejects because the upstream call failed, the
\* controller has, once it is done, sent a 5xx response with a generic
\* message that holds nothing of the upstream error; the request is not left
\* without a response.
C15_UpstreamFailureAnswered ==
    (ctrl = "done" /\ upstream = "rejected")
        => http.sent /\ http.status >= 500 /\ http.kind = "text"

\* a review request is pending
SomePending == \E i \in 1..Len(reqs) : reqs[i].state = "pending"

\* C16: in the frontend the review state is a string in every reachable
\* state: at the start, after a successful request whatever the type of
\* response.data.response or response.data, and after a failed request.
C16_ReviewIsString == review.t = "string"

\* the backend answered { response: ["good.", 7] } and the review is its
\* indented JSON text
C16_Witness ==
    /\ Len(reqs) >= 1
    /\ reqs[1].state = "done"
    /\ review = Str(<<"[", "\n", " ", " ">> \o JsonString(Good)
                    \o <<",", "\n", " ", " ", "7", "\n", "]">>)

\* C17: loading is true exactly when at least one review request is pending.
C17_LoadingIffPending == loading <=> SomePending

\* C20: once every request issued has completed, the review shown is the
\* outcome of the request issued last.
C20_LatestRequestShown ==
    (Len(reqs) >= 1 /\ ~SomePending) => review = reqs[Len(reqs)].shown

\* the request i has been issued and is pending
IsPending(i) == i <= Len(reqs) /\ reqs[i].state = "pending"

\* the request i has been issued and has settled
HasSettled(i) == i <= Len(reqs) /\ reqs[i].state # "pending"

\* the step settles the request i
Settles(i) == IsPending(i) /\ reqs'[i].state # "pending"

\* the step is a click: one more request has been issued
IsClick == Len(reqs') > Len(reqs)

\* C21: in the frontend, where every request issued settles, (1) every
\* pending request leads to a state where it has settled and loading is
\* false; (2) the step that settles a request leaves loading false, and if
\* the request failed it leaves the review equal to the fixed error message;
\* (3) whenever no request is pending loading is false, and (4) from such a
\* state loading stays false in every step that is not a click.
C21_LoadingCleared ==
    /\ \A i \in 1..MaxClicks :
          IsPending(i) ~> (HasSettled(i) /\ loading = FALSE)
    /\ [][\A i \in 1..MaxClicks :
            Settles(i) =>
              /\ loading' = FALSE
              /\ reqs'[i].state = "failed" => review' = Str(ErrorReview)]_vars
    /\ [](~SomePending => loading = FALSE)
    /\ [][(~SomePending /\ ~IsClick) => loading' = FALSE]_vars

\* two clicks; the second request was answered and the first one failed
\* after that: no request is pending, loading is false and the review is
\* the error message
C21_Witness ==
    /\ Len(reqs) = 2
    /\ reqs[1].state = "failed"
    /\ reqs[2].state = "done"
    /\ reqs[2].shown # Str(ErrorReview)
    /\ review = Str(ErrorReview)
    /\ loading = FALSE
====
